---- MODULE Spec2Model ----
(***************************************************************************)
(* A model of BitcoinCoreClient (src/src/bitcoincore.rs): the client built *)
(* by new, and the retrying dispatch function send that every API method   *)
(* delegates to.  Each caller is a thread running send on the shared       *)
(* client; the node and the HTTP transport are the environment, which      *)
(* answers every transport call with any value of                          *)
(* Result<Result<R, RpcError>, ClientError>.                               *)
(***************************************************************************)
EXTENDS Integers, Sequences, FiniteSets, TLC

\* ------------------------------------------------------------------ bounds

\* Largest max_retries of the retry policies that send is explored with.
MaxRetries == 3

\* Number of threads calling send on the one shared client.
NumCallers == 2

\* --------------------------------------------------------- program constants

\* The RPC error code that send retries on (bitcoind is still starting up).
BusyCode == -28

\* The retry policy that new installs.
DefaultMaxRetries == 10
DefaultInterval == 500

\* ------------------------------------------------------------------- values

Callers == 1..NumCallers

\* Option<T>
None == <<"None">>
Some(v) == <<"Some", v>>

\* Result<T, E>
Ok(v) == <<"Ok", v>>
Err(e) == <<"Err", e>>

\* struct RetryConfig { max_retries: u32, interval: u64 }
RetryConfig(max_retries, interval) ==
    [max_retries |-> max_retries, interval |-> interval]

\* Typed success values R that the node may answer with.
Values == {"r1", "r2"}

\* RpcError codes that the node may answer with; the message is not modelled.
RpcCodes == {BusyCode, -1, 28}
RpcError(code) == [code |-> code]

\* ClientError: the transport failed or the body could not be decoded; no
\* application result exists.
ClientErrors == {"ConnectionRefused", "MalformedBody"}

\* Every value of Result<Result<R, RpcError>, ClientError>.
Results ==
    {Ok(Ok(v)) : v \in Values}
        \cup {Ok(Err(RpcError(code))) : code \in RpcCodes}
        \cup {Err(e) : e \in ClientErrors}

IsSuccess(result) == result[1] = "Ok" /\ result[2][1] = "Ok"
IsRpcError(result) == result[1] = "Ok" /\ result[2][1] = "Err"
IsClientError(result) == result[1] = "Err"

\* The value of `returned` while send has not returned.
NoResult == <<"Pending">>

\* What the network and the node do to one HTTP POST: the connection fails, or
\* a response arrives whose body is a JSON-RPC result, a JSON-RPC error object,
\* or something that does not decode.
Responses ==
    {[http |-> "ConnectionRefused", body |-> <<"none", "">>]}
        \cup {[http |-> "200", body |-> <<"result", v>>] : v \in Values}
        \cup {[http |-> "200", body |-> <<"error", code>>] : code \in RpcCodes}
        \cup {[http |-> "200", body |-> <<"malformed", "<html>">>]}

\* RpcClient::send of the transport: the HTTP round trip and the decoding of
\* the body into the two-layer result.
RpcClientSend(response) ==
    IF response.http # "200"
        THEN Err("ConnectionRefused")
        ELSE CASE response.body[1] = "result" -> Ok(Ok(response.body[2]))
               [] response.body[1] = "error" -> Ok(Err(RpcError(response.body[2])))
               [] OTHER -> Err("MalformedBody")

\* JsonRpcVersion::V1 and the request id that every method passes.
V1 == "1.0"
RequestId == "42"

\* RpcRequest<P>: the envelope of one call.
RpcRequest(version, id, method, params) ==
    [jsonrpc |-> version, id |-> id, method |-> method, params |-> params]

\* RpcRequest::new0 .. RpcRequest::new4
new0(version, id, method) == RpcRequest(version, id, method, <<>>)
new1(version, id, method, a) == RpcRequest(version, id, method, <<a>>)
new2(version, id, method, a, b) == RpcRequest(version, id, method, <<a, b>>)
new3(version, id, method, a, b, c) == RpcRequest(version, id, method, <<a, b, c>>)
new4(version, id, method, a, b, c, d) ==
    RpcRequest(version, id, method, <<a, b, c, d>>)

\* The values of `request` and `invocation` of a thread that is in no call.
NoRequest == [jsonrpc |-> "", id |-> "", method |-> "", params |-> <<>>]
NoInvocation == [method |-> "", args |-> <<>>]

\* The client of a construction that panicked: there is none.
NoClient == [panicked |-> "new"]
NoRetryConfig == <<"NoClient">>

\* Inputs of new.
Urls == {"http://localhost:18443"}
Usernames == {"bitcoin"}
Passwords == {"secret"}

\* Retry policies send is explored with, besides no policy at all.
Intervals == {250}
RetryConfigs ==
    {None} \cup {Some(RetryConfig(n, iv)) : n \in 0..MaxRetries, iv \in Intervals}

VARIABLES
    build,         \* the results of HeaderValue::from_str and of
                   \* HTTPClient::builder().build() inside new
    client,        \* self.client: the RpcClient (url, default Authorization header)
    retry_config,  \* self.retry_config: Option<RetryConfig>
    pc,            \* per caller: where that thread is in send
    i,             \* per caller: the loop variable of `for i in 0..max_retries`
    history,       \* per caller: results of the transport calls of this send, in order
    sleeps,        \* per caller: number of thread::sleep calls of this send
    slept,         \* per caller: total milliseconds passed to thread::sleep in this send
    returned,      \* per caller: the value send returned, NoResult before
    invocation,    \* per caller: the API method invoked and its arguments
    request,       \* per caller: the RpcRequest that the method passed to send
    wire           \* per caller: what each transport call of this send carried

vars ==
    <<build, client, retry_config, pc, i, history, sleeps, slept, returned,
      invocation, request, wire>>

\* ------------------------------------------------------------- construction

\* base64::encode: the input rendered in the base64 alphabet.
Base64Encode(text) == [alphabet |-> "base64", of |-> text]

\* The Authorization header value: "Basic " ++ base64(username ":" password).
BasicAuth(username, password) ==
    <<"Basic", Base64Encode(<<username, ":", password>>)>>

\* HeaderValue::from_str: an error unless every byte is visible ASCII, which
\* the scheme word and the base64 alphabet are.
HeaderValueFromStr(value) ==
    IF value[1] = "Basic" /\ value[2].alphabet = "base64"
        THEN Ok(value)
        ELSE Err("InvalidHeaderValue")

\* What HTTPClient::builder().default_headers(headers).build() may yield.
HttpBuildResults == {Ok("HTTPClient"), Err("TlsBackend")}

\* The two fallible steps of new that went well.
BuildOk(username, password) ==
    [header |-> HeaderValueFromStr(BasicAuth(username, password)),
     http |-> Ok("HTTPClient")]

\* Mutant of new: the client is built without a retry policy.
new_without_policy(url, username, password) ==
    [client |-> [url |-> url, authorization |-> BasicAuth(username, password)],
     retry_config |-> None]

\* Mutant of new: the interval is given in seconds, with 5 attempts.
new_other_policy(url, username, password) ==
    [client |-> [url |-> url, authorization |-> BasicAuth(username, password)],
     retry_config |-> Some(RetryConfig(5, 5))]

\* BitcoinCoreClient::new: the RpcClient bound to url with the Authorization
\* header as default header, and the retry policy.
new(url, username, password) ==
    [client |-> [url |-> url, authorization |-> BasicAuth(username, password)],
     retry_config |-> Some(RetryConfig(DefaultMaxRetries, DefaultInterval))]

\* Mutant of new_or_panic: a failed step is not noticed at construction, the
\* client is handed out all the same.
new_deferring_failure(url, username, password, http_build) ==
    new(url, username, password)

\* new with its unwrap and its expect: a failed header value or a failed
\* transport build panics, and no client exists.
new_or_panic(url, username, password, http_build) ==
    IF \/ HeaderValueFromStr(BasicAuth(username, password))[1] = "Err"
       \/ http_build[1] = "Err"
        THEN [client |-> NoClient, retry_config |-> NoRetryConfig]
        ELSE new(url, username, password)

CallersIdle ==
    /\ pc = [c \in Callers |-> "idle"]
    /\ i = [c \in Callers |-> 0]
    /\ history = [c \in Callers |-> <<>>]
    /\ sleeps = [c \in Callers |-> 0]
    /\ slept = [c \in Callers |-> 0]
    /\ returned = [c \in Callers |-> NoResult]
    /\ invocation = [c \in Callers |-> NoInvocation]
    /\ request = [c \in Callers |-> NoRequest]
    /\ wire = [c \in Callers |-> <<>>]

\* The client as built by new, no call in progress.
Init ==
    /\ \E url \in Urls, username \in Usernames, password \in Passwords :
           /\ client = new(url, username, password).client
           /\ retry_config = new(url, username, password).retry_config
           /\ build = BuildOk(username, password)
    /\ CallersIdle

\* Any value of the struct BitcoinCoreClient as the self of send.
InitSend ==
    /\ \E url \in Urls, username \in Usernames, password \in Passwords :
           /\ client = new(url, username, password).client
           /\ build = BuildOk(username, password)
    /\ retry_config \in RetryConfigs
    /\ CallersIdle

\* ---------------------------------------------------------------- API methods

\* rpc::TxOutConfirmations
Unconfirmed == <<"Unconfirmed">>
AtLeast(number) == <<"AtLeast", number>>

\* Argument values the methods are invoked with.
Addresses == {"addr1"}
Scripts == {"script1"}
SerializedTransactions == {"rawtx1"}
TransactionIds == {"tx1", "tx2"}
BlockHashes == {"hash1", "hash2"}
Numbers == {1}
Amounts == {"0.5"}
TxOutConfirmations == {Unconfirmed, AtLeast(0), AtLeast(6)}
MaxConfirmations == {None, Some(9999)}
Recipients == {None, Some(<<"addr1">>)}

\* fn get_raw_transaction: the request shared by the serialized and the
\* verbose form.
get_raw_transaction(tx, verbose) ==
    new2(V1, RequestId, "getrawtransaction", tx, verbose)

add_multisig_address(number_of_required_signatures, participants) ==
    new2(V1, RequestId, "addmultisigaddress",
         number_of_required_signatures, participants)

create_raw_transaction(inputs, output) ==
    new2(V1, RequestId, "createrawtransaction", inputs, output)

decode_rawtransaction(tx) == new1(V1, RequestId, "decoderawtransaction", tx)

decode_script(script) == new1(V1, RequestId, "decodescript", script)

dump_privkey(address) == new1(V1, RequestId, "dumpprivkey", address)

fund_raw_transaction(tx, options) ==
    new2(V1, RequestId, "fundrawtransaction", tx, options)

generate(number_of_blocks) == new1(V1, RequestId, "generate", number_of_blocks)

generate_to_address(number_of_blocks, address) ==
    new2(V1, RequestId, "generatetoaddress", number_of_blocks, address)

get_address_info(address) == new1(V1, RequestId, "getaddressinfo", address)

get_balance == new0(V1, RequestId, "getbalance")

get_best_block_hash == new0(V1, RequestId, "getbestblockhash")

get_block(header_hash) == new1(V1, RequestId, "getblock", header_hash)

\* Mutant of get_block_verbose: verbosity 1, the block without its
\* transactions decoded.
get_block_verbose_one(header_hash) ==
    new2(V1, RequestId, "getblock", header_hash, 1)

get_block_verbose(header_hash) ==
    new2(V1, RequestId, "getblock", header_hash, 2)

get_blockchain_info == new0(V1, RequestId, "getblockchaininfo")

get_block_count == new0(V1, RequestId, "getblockcount")

get_block_hash(height) == new1(V1, RequestId, "getblockhash", height)

get_new_address == new2(V1, RequestId, "getnewaddress", "", "bech32")

get_raw_transaction_serialized(tx) == get_raw_transaction(tx, FALSE)

get_raw_transaction_verbose(tx) == get_raw_transaction(tx, TRUE)

\* Mutant of list_unspent: Unconfirmed asks for one confirmation.
list_unspent_unconfirmed_one(min_confirmations, max_confirmations, recipients) ==
    LET min == IF min_confirmations = Unconfirmed
                   THEN 1
                   ELSE min_confirmations[2]
    IN  new3(V1, RequestId, "listunspent", min, max_confirmations, recipients)

list_unspent(min_confirmations, max_confirmations, recipients) ==
    LET min == IF min_confirmations = Unconfirmed
                   THEN 0
                   ELSE min_confirmations[2]
    IN  new3(V1, RequestId, "listunspent", min, max_confirmations, recipients)

send_raw_transaction(tx_data) ==
    new1(V1, RequestId, "sendrawtransaction", tx_data)

send_to_address(address, amount) ==
    new2(V1, RequestId, "sendtoaddress", address, amount)

sign_raw_transaction_with_key(tx, private_keys, dependencies, signature_hash_type) ==
    new4(V1, RequestId, "signrawtransactionwithkey",
         tx, private_keys, dependencies, signature_hash_type)

validate_address(address) == new1(V1, RequestId, "validateaddress", address)

\* The methods of BitcoinRpcApi as implemented for BitcoinCoreClient.
Methods ==
    {"add_multisig_address", "create_raw_transaction", "decode_rawtransaction",
     "decode_script", "dump_privkey", "fund_raw_transaction", "generate",
     "generate_to_address", "get_address_info", "get_balance",
     "get_best_block_hash", "get_block", "get_block_verbose",
     "get_blockchain_info", "get_block_count", "get_block_hash",
     "get_new_address", "get_raw_transaction_serialized",
     "get_raw_transaction_verbose", "list_unspent", "send_raw_transaction",
     "send_to_address", "sign_raw_transaction_with_key", "validate_address"}

\* The argument tuples each method is invoked with.
ApiArgs(method) ==
    CASE method = "add_multisig_address" ->
             {<<n, <<a>>>> : n \in Numbers, a \in Addresses}
      [] method = "create_raw_transaction" -> {<<<<"input1">>, "output1">>}
      [] method = "decode_rawtransaction" -> {<<tx>> : tx \in SerializedTransactions}
      [] method = "decode_script" -> {<<script>> : script \in Scripts}
      [] method = "dump_privkey" -> {<<a>> : a \in Addresses}
      [] method = "fund_raw_transaction" ->
             {<<tx, "options1">> : tx \in SerializedTransactions}
      [] method = "generate" -> {<<n>> : n \in Numbers}
      [] method = "generate_to_address" ->
             {<<n, a>> : n \in Numbers, a \in Addresses}
      [] method = "get_address_info" -> {<<a>> : a \in Addresses}
      [] method = "get_block" -> {<<h>> : h \in BlockHashes}
      [] method = "get_block_verbose" -> {<<h>> : h \in BlockHashes}
      [] method = "get_block_hash" -> {<<n>> : n \in Numbers}
      [] method = "get_raw_transaction_serialized" ->
             {<<tx>> : tx \in TransactionIds}
      [] method = "get_raw_transaction_verbose" ->
             {<<tx>> : tx \in TransactionIds}
      [] method = "list_unspent" ->
             {<<min, max, recipients>> : min \in TxOutConfirmations,
                                         max \in MaxConfirmations,
                                         recipients \in Recipients}
      [] method = "send_raw_transaction" ->
             {<<tx>> : tx \in SerializedTransactions}
      [] method = "send_to_address" ->
             {<<a, amount>> : a \in Addresses, amount \in Amounts}
      [] method = "sign_raw_transaction_with_key" ->
             {<<tx, Some(<<"key1">>), None, None>> : tx \in SerializedTransactions}
      [] method = "validate_address" -> {<<a>> : a \in Addresses}
      [] OTHER -> {<<>>}

\* The request that a method hands to send.
ApiRequest(method, args) ==
    CASE method = "add_multisig_address" -> add_multisig_address(args[1], args[2])
      [] method = "create_raw_transaction" -> create_raw_transaction(args[1], args[2])
      [] method = "decode_rawtransaction" -> decode_rawtransaction(args[1])
      [] method = "decode_script" -> decode_script(args[1])
      [] method = "dump_privkey" -> dump_privkey(args[1])
      [] method = "fund_raw_transaction" -> fund_raw_transaction(args[1], args[2])
      [] method = "generate" -> generate(args[1])
      [] method = "generate_to_address" -> generate_to_address(args[1], args[2])
      [] method = "get_address_info" -> get_address_info(args[1])
      [] method = "get_balance" -> get_balance
      [] method = "get_best_block_hash" -> get_best_block_hash
      [] method = "get_block" -> get_block(args[1])
      [] method = "get_block_verbose" -> get_block_verbose(args[1])
      [] method = "get_blockchain_info" -> get_blockchain_info
      [] method = "get_block_count" -> get_block_count
      [] method = "get_block_hash" -> get_block_hash(args[1])
      [] method = "get_new_address" -> get_new_address
      [] method = "get_raw_transaction_serialized" ->
             get_raw_transaction_serialized(args[1])
      [] method = "get_raw_transaction_verbose" ->
             get_raw_transaction_verbose(args[1])
      [] method = "list_unspent" -> list_unspent(args[1], args[2], args[3])
      [] method = "send_raw_transaction" -> send_raw_transaction(args[1])
      [] method = "send_to_address" -> send_to_address(args[1], args[2])
      [] method = "sign_raw_transaction_with_key" ->
             sign_raw_transaction_with_key(args[1], args[2], args[3], args[4])
      [] method = "validate_address" -> validate_address(args[1])

\* The outcome of any construction, failed ones included; no call in progress.
InitNew ==
    /\ \E url \in Urls, username \in Usernames, password \in Passwords :
           \E http_build \in HttpBuildResults :
               /\ build = [header |-> HeaderValueFromStr(BasicAuth(username, password)),
                           http |-> http_build]
               /\ client = new_or_panic(url, username, password, http_build).client
               /\ retry_config =
                      new_or_panic(url, username, password, http_build).retry_config
    /\ CallersIdle

\* --------------------------------------------------------------------- send

\* Mutant of IsBusy: a transport failure is retried like the busy error.
IsBusyOrTransportFailure(result) ==
    \/ IsClientError(result)
    \/ IsRpcError(result) /\ result[2][2].code = BusyCode

\* Mutant of IsBusy: every application error is retried.
IsBusyAnyRpcError(result) == IsRpcError(result)

\* Mutant of IsBusy: an undecodable body is taken for a node that is not ready
\* yet, and retried.
IsBusyOrDecodeFailure(result) ==
    \/ IsRpcError(result) /\ result[2][2].code = BusyCode
    \/ result = Err("MalformedBody")

\* The match guard: Ok(Err(ref rpc_error)) if rpc_error.code == -28
IsBusy(result) == IsRpcError(result) /\ result[2][2].code = BusyCode

\* Mutant of LoopContinues: the inclusive range 0..=max_retries.
LoopContinuesInclusive(c) ==
    /\ retry_config # None
    /\ i[c] <= retry_config[2].max_retries

\* Mutant of LoopContinues: a missing policy is replaced by the default one.
LoopContinuesDefault(c) ==
    i[c] < (IF retry_config = None
                THEN DefaultMaxRetries
                ELSE retry_config[2].max_retries)

\* Mutant of LoopContinues: a policy always grants one call inside the loop,
\* the range being 0..max(max_retries, 1).
LoopContinuesAtLeastOnce(c) ==
    /\ retry_config # None
    /\ i[c] < (IF retry_config[2].max_retries = 0
                   THEN 1
                   ELSE retry_config[2].max_retries)

\* if let Some(ref config) = self.retry_config, and the range 0..max_retries
\* still has an element for i.
LoopContinues(c) ==
    /\ retry_config # None
    /\ i[c] < retry_config[2].max_retries

\* Mutant of SleepDuration: the interval taken as microseconds.
SleepDurationMicros == retry_config[2].interval \div 1000

\* Duration::from_millis(config.interval), in milliseconds.
SleepDuration == retry_config[2].interval

\* Mutant of Envelope: a retry goes out under a request id of its own.
EnvelopeFreshId(c) ==
    [request[c] EXCEPT !.id = IF history[c] = <<>> THEN RequestId ELSE "43"]

\* self.client.send::<R, P>(request): the envelope that send was given goes
\* out to the client's url under the client's default Authorization header.
Envelope(c) == request[c]

TransportCall(c, response) ==
    [url |-> client.url,
     authorization |-> client.authorization,
     request |-> Envelope(c),
     response |-> response]

\* Mutant of InvokeMethod: the method makes a transport call of its own before
\* it enters send.
InvokeMethodWithOwnCall(c, method, args) ==
    /\ pc[c] = "idle"
    /\ client # NoClient
    /\ invocation' = [invocation EXCEPT ![c] = [method |-> method, args |-> args]]
    /\ request' = [request EXCEPT ![c] = ApiRequest(method, args)]
    /\ \E response \in Responses :
           /\ wire' = [wire EXCEPT ![c] =
                  <<[url |-> client.url,
                     authorization |-> client.authorization,
                     request |-> ApiRequest(method, args),
                     response |-> response]>>]
           /\ history' = [history EXCEPT ![c] = <<RpcClientSend(response)>>]
    /\ pc' = [pc EXCEPT ![c] = "for"]
    /\ UNCHANGED <<build, client, retry_config, i, sleeps, slept, returned>>

\* A thread invokes an API method of the client: the method builds its request
\* and enters send with it.
InvokeMethod(c, method, args) ==
    /\ pc[c] = "idle"
    /\ client # NoClient
    /\ invocation' = [invocation EXCEPT ![c] = [method |-> method, args |-> args]]
    /\ request' = [request EXCEPT ![c] = ApiRequest(method, args)]
    /\ pc' = [pc EXCEPT ![c] = "for"]
    /\ UNCHANGED <<build, client, retry_config, i, history, sleeps, slept, returned, wire>>

\* A thread enters send through get_block_count.
Call(c) == InvokeMethod(c, "get_block_count", <<>>)

\* A thread invokes any API method with any arguments.
Invoke(c) ==
    \E method \in Methods : \E args \in ApiArgs(method) : InvokeMethod(c, method, args)

\* Mutant of Attempt: the sleep is placed before the match, so that it is
\* taken after every transport call of the loop, the last one included.
AttemptSleepsBeforeMatch(c) ==
    /\ pc[c] = "for"
    /\ LoopContinues(c)
    /\ \E response \in Responses :
           LET result == RpcClientSend(response) IN
           /\ wire' = [wire EXCEPT ![c] = Append(@, TransportCall(c, response))]
           /\ history' = [history EXCEPT ![c] = Append(@, result)]
           /\ IF IsBusy(result)
                  THEN /\ pc' = [pc EXCEPT ![c] = "sleep"]
                       /\ UNCHANGED <<returned, sleeps, slept>>
                  ELSE /\ pc' = [pc EXCEPT ![c] = "done"]
                       /\ returned' = [returned EXCEPT ![c] = result]
                       /\ sleeps' = [sleeps EXCEPT ![c] = @ + 1]
                       /\ slept' = [slept EXCEPT ![c] = @ + SleepDuration]
    /\ UNCHANGED <<build, client, retry_config, i, invocation, request>>

\* One iteration of the loop body: the transport call and the match on its result.
Attempt(c) ==
    /\ pc[c] = "for"
    /\ LoopContinues(c)
    /\ \E response \in Responses :
           LET result == RpcClientSend(response) IN
           /\ wire' = [wire EXCEPT ![c] = Append(@, TransportCall(c, response))]
           /\ history' = [history EXCEPT ![c] = Append(@, result)]
           /\ IF IsBusy(result)
                  THEN /\ pc' = [pc EXCEPT ![c] = "sleep"]
                       /\ UNCHANGED returned
                  ELSE /\ pc' = [pc EXCEPT ![c] = "done"]
                       /\ returned' = [returned EXCEPT ![c] = result]
    /\ UNCHANGED <<build, client, retry_config, i, sleeps, slept, invocation, request>>

\* Mutant of Sleep: the loop counter is not advanced by continue.
SleepNoAdvance(c) ==
    /\ pc[c] = "sleep"
    /\ sleeps' = [sleeps EXCEPT ![c] = @ + 1]
    /\ slept' = [slept EXCEPT ![c] = @ + SleepDuration]
    /\ pc' = [pc EXCEPT ![c] = "for"]
    /\ UNCHANGED <<build, client, retry_config, i, history, returned,
                   invocation, request, wire>>

\* Mutant of Sleep: continue without the sleep.
SleepSkipped(c) ==
    /\ pc[c] = "sleep"
    /\ i' = [i EXCEPT ![c] = @ + 1]
    /\ pc' = [pc EXCEPT ![c] = "for"]
    /\ UNCHANGED <<build, client, retry_config, history, sleeps, slept, returned,
                   invocation, request, wire>>

\* Mutant of Sleep: the attempts left are kept in the client's own policy.
SleepConsumesPolicy(c) ==
    /\ pc[c] = "sleep"
    /\ sleeps' = [sleeps EXCEPT ![c] = @ + 1]
    /\ slept' = [slept EXCEPT ![c] = @ + SleepDuration]
    /\ retry_config' =
           Some(RetryConfig(retry_config[2].max_retries - 1, retry_config[2].interval))
    /\ pc' = [pc EXCEPT ![c] = "for"]
    /\ UNCHANGED <<build, client, i, history, returned, invocation, request, wire>>

\* Mutant of Sleep: the loop counter is one counter shared by all callers.
SleepSharedCounter(c) ==
    /\ pc[c] = "sleep"
    /\ sleeps' = [sleeps EXCEPT ![c] = @ + 1]
    /\ slept' = [slept EXCEPT ![c] = @ + SleepDuration]
    /\ i' = [d \in Callers |-> i[d] + 1]
    /\ pc' = [pc EXCEPT ![c] = "for"]
    /\ UNCHANGED <<build, client, retry_config, history, returned,
                   invocation, request, wire>>

\* thread::sleep(interval); continue: the range yields the next i.
Sleep(c) ==
    /\ pc[c] = "sleep"
    /\ sleeps' = [sleeps EXCEPT ![c] = @ + 1]
    /\ slept' = [slept EXCEPT ![c] = @ + SleepDuration]
    /\ i' = [i EXCEPT ![c] = @ + 1]
    /\ pc' = [pc EXCEPT ![c] = "for"]
    /\ UNCHANGED <<build, client, retry_config, history, returned,
                   invocation, request, wire>>

\* Mutant of FinalAttempt: a busy answer to the final call is replaced by a
\* transport error of the client's own making.
FinalAttemptGivesUp(c) ==
    /\ pc[c] = "for"
    /\ ~LoopContinues(c)
    /\ \E response \in Responses :
           LET result == RpcClientSend(response) IN
           /\ wire' = [wire EXCEPT ![c] = Append(@, TransportCall(c, response))]
           /\ history' = [history EXCEPT ![c] = Append(@, result)]
           /\ returned' = [returned EXCEPT ![c] =
                  IF IsBusy(result) THEN Err("ConnectionRefused") ELSE result]
    /\ pc' = [pc EXCEPT ![c] = "done"]
    /\ UNCHANGED <<build, client, retry_config, i, sleeps, slept, invocation, request>>

\* The call after the if-let: no policy, or the loop ran out of attempts.
FinalAttempt(c) ==
    /\ pc[c] = "for"
    /\ ~LoopContinues(c)
    /\ \E response \in Responses :
           LET result == RpcClientSend(response) IN
           /\ wire' = [wire EXCEPT ![c] = Append(@, TransportCall(c, response))]
           /\ history' = [history EXCEPT ![c] = Append(@, result)]
           /\ returned' = [returned EXCEPT ![c] = result]
    /\ pc' = [pc EXCEPT ![c] = "done"]
    /\ UNCHANGED <<build, client, retry_config, i, sleeps, slept, invocation, request>>

\* The caller takes the returned value; the locals of that send are gone.
Finish(c) ==
    /\ pc[c] = "done"
    /\ pc' = [pc EXCEPT ![c] = "idle"]
    /\ i' = [i EXCEPT ![c] = 0]
    /\ history' = [history EXCEPT ![c] = <<>>]
    /\ sleeps' = [sleeps EXCEPT ![c] = 0]
    /\ slept' = [slept EXCEPT ![c] = 0]
    /\ returned' = [returned EXCEPT ![c] = NoResult]
    /\ invocation' = [invocation EXCEPT ![c] = NoInvocation]
    /\ request' = [request EXCEPT ![c] = NoRequest]
    /\ wire' = [wire EXCEPT ![c] = <<>>]
    /\ UNCHANGED <<build, client, retry_config>>

Next ==
    \E c \in Callers :
        \/ Call(c)
        \/ Attempt(c)
        \/ Sleep(c)
        \/ FinalAttempt(c)
        \/ Finish(c)

\* A client built by new.
Spec == Init /\ [][Next]_vars

\* A construction that may fail, and the calls of whatever client it yields.
NewSpec == InitNew /\ [][Next]_vars

\* send on any value of the client struct.
SendSpec == InitSend /\ [][Next]_vars

\* The API used by one thread at a time: a thread invokes any method while no
\* other thread is in a call.
ApiNext ==
    \E c \in Callers :
        \/ (\A d \in Callers \ {c} : pc[d] = "idle") /\ Invoke(c)
        \/ Attempt(c)
        \/ Sleep(c)
        \/ FinalAttempt(c)
        \/ Finish(c)

ApiSpec == InitSend /\ [][ApiNext]_vars

\* The next step of a thread that is in send.
SendStep(c) == Attempt(c) \/ Sleep(c) \/ FinalAttempt(c)

\* A thread in send keeps running: the transport call returns and the sleep ends.
SendFairness == \A c \in Callers : WF_vars(SendStep(c))

FairSendSpec == SendSpec /\ SendFairness

\* ------------------------------------------------------------------- claims

\* The node's busy answer, as send's caller sees it: Ok(Err(code -28)).
BusyError == Ok(Err([code |-> -28]))

\* Every transport call of c's current send was answered with the busy error.
AllBusy(c) == \A j \in 1..Len(history[c]) : history[c][j] = BusyError

\* C1: with a retry policy of N attempts and a node that answers -28 to every
\* transport call, send makes N looped attempts and one final attempt, N + 1
\* transport calls and never more, and returns the busy error of the last one.
C1_BusyNodeExhaustsPolicy ==
    \A c \in Callers :
        (retry_config # None /\ AllBusy(c)) =>
            /\ Len(history[c]) <= retry_config[2].max_retries + 1
            /\ pc[c] = "done" =>
                   /\ Len(history[c]) = retry_config[2].max_retries + 1
                   /\ i[c] = retry_config[2].max_retries
                   /\ returned[c] = BusyError
            /\ pc[c] # "done" => returned[c] = NoResult

C1_Witness ==
    \E c \in Callers :
        /\ retry_config # None
        /\ retry_config[2].max_retries >= 2
        /\ pc[c] = "done"
        /\ AllBusy(c)
        /\ Len(history[c]) = retry_config[2].max_retries + 1
        /\ returned[c] = BusyError

\* C2: a transport failure is never retried: it is the last transport call of
\* its send, it is what send returns, and no sleep follows it (none at all when
\* it is the answer to the first call).
C2_TransportFailureNotRetried ==
    \A c \in Callers :
        \A j \in 1..Len(history[c]) :
            history[c][j][1] = "Err" =>
                /\ j = Len(history[c])
                /\ pc[c] = "done"
                /\ returned[c] = history[c][j]
                /\ sleeps[c] = j - 1
                /\ \A k \in 1..(j - 1) : history[c][k] = BusyError

C2_Witness ==
    \E c1, c2 \in Callers :
        /\ retry_config # None
        /\ retry_config[2].max_retries > 1
        /\ pc[c1] = "done"
        /\ Len(history[c1]) = 1
        /\ history[c1][1][1] = "Err"
        /\ sleeps[c1] = 0
        /\ pc[c2] = "done"
        /\ Len(history[c2]) = 2
        /\ history[c2][1] = BusyError
        /\ history[c2][2][1] = "Err"

\* C3: an application error with a code other than -28 is returned at once, at
\* whichever attempt it arrives: it is the last transport call, no sleep
\* follows it and the loop counter is not advanced past it; every call that was
\* followed by another call was answered with code -28.
C3_OtherRpcErrorNotRetried ==
    \A c \in Callers :
        /\ \A j \in 1..Len(history[c]) :
               (/\ history[c][j][1] = "Ok"
                /\ history[c][j][2][1] = "Err"
                /\ history[c][j][2][2].code # -28) =>
                   /\ j = Len(history[c])
                   /\ pc[c] = "done"
                   /\ returned[c] = history[c][j]
                   /\ sleeps[c] = j - 1
                   /\ i[c] = j - 1
        /\ \A j \in 1..(Len(history[c]) - 1) : history[c][j] = BusyError

C3_Witness ==
    \E c \in Callers :
        /\ retry_config # None
        /\ retry_config[2].max_retries >= 3
        /\ pc[c] = "done"
        /\ Len(history[c]) = 2
        /\ history[c][1] = BusyError
        /\ returned[c] = Ok(Err([code |-> -1]))
        /\ i[c] = 1

\* C4: with no retry policy send makes exactly one transport call whatever the
\* answer is, never sleeps, and returns the answer of that call.
C4_NoPolicySingleCall ==
    retry_config = None =>
        \A c \in Callers :
            /\ Len(history[c]) <= 1
            /\ pc[c] # "sleep"
            /\ sleeps[c] = 0
            /\ slept[c] = 0
            /\ pc[c] = "done" =>
                   /\ Len(history[c]) = 1
                   /\ returned[c] = history[c][1]

C4_Witness ==
    \E c \in Callers :
        /\ retry_config = None
        /\ pc[c] = "done"
        /\ history[c] = <<BusyError>>
        /\ returned[c] = BusyError

\* C5: every call to send terminates, whatever the node answers: it makes at
\* most max_retries + 1 transport calls (one without a policy), and once
\* entered it reaches its return with exactly one of typed success,
\* application error or transport error.
C5_SendTerminates ==
    /\ [](\A c \in Callers :
              /\ Len(history[c]) <=
                     (IF retry_config = None THEN 0 ELSE retry_config[2].max_retries) + 1
              /\ sleeps[c] <=
                     (IF retry_config = None THEN 0 ELSE retry_config[2].max_retries)
              /\ pc[c] = "done" =>
                     /\ returned[c] \in Results
                     /\ Cardinality({k \in {"success", "application", "transport"} :
                            \/ k = "success" /\ IsSuccess(returned[c])
                            \/ k = "application" /\ IsRpcError(returned[c])
                            \/ k = "transport" /\ IsClientError(returned[c])}) = 1)
    /\ \A c \in Callers : (pc[c] \in {"for", "sleep"}) ~> (pc[c] = "done")

C5_Witness ==
    \E c \in Callers :
        /\ retry_config # None
        /\ retry_config[2].max_retries = MaxRetries
        /\ pc[c] = "done"
        /\ sleeps[c] = MaxRetries
        /\ AllBusy(c)

\* C6: what send returns is the result of the last transport call it made,
\* unchanged in both layers; before its return nothing is returned, and every
\* earlier transport call of that send was answered busy.
C6_ReturnsLastTransportResult ==
    \A c \in Callers :
        /\ pc[c] = "done" =>
               /\ Len(history[c]) >= 1
               /\ returned[c] = history[c][Len(history[c])]
               /\ \A j \in 1..(Len(history[c]) - 1) : returned[c] # history[c][j]
                                                        \/ returned[c] = BusyError
        /\ pc[c] # "done" => returned[c] = NoResult

C6_Witness ==
    \E c \in Callers :
        /\ retry_config # None
        /\ retry_config[2].max_retries >= 2
        /\ pc[c] = "done"
        /\ Len(history[c]) = retry_config[2].max_retries + 1
        /\ returned[c] = Err("ConnectionRefused")
        /\ history[c][1] = BusyError

\* C7: when the node answers busy to the first k transport calls and then
\* with a success, k is at most max_retries and send returns that success
\* after exactly k + 1 transport calls and k sleeps.
C7_SuccessAfterBusyPrefix ==
    \A c \in Callers :
        \A j \in 1..Len(history[c]) :
            (history[c][j][1] = "Ok" /\ history[c][j][2][1] = "Ok") =>
                /\ \A k \in 1..(j - 1) : history[c][k] = BusyError
                /\ j = Len(history[c])
                /\ j - 1 <= (IF retry_config = None THEN 0 ELSE retry_config[2].max_retries)
                /\ pc[c] = "done"
                /\ returned[c] = history[c][j]
                /\ sleeps[c] = j - 1

C7_Witness ==
    \E c \in Callers :
        /\ retry_config # None
        /\ retry_config[2].max_retries >= 2
        /\ pc[c] = "done"
        /\ Len(history[c]) = retry_config[2].max_retries + 1
        /\ sleeps[c] = retry_config[2].max_retries
        /\ returned[c] = Ok(Ok("r2"))

\* C8: a sleep of the configured interval follows each busy looped attempt,
\* before the next transport call; once all max_retries looped attempts were
\* answered busy, send has slept max_retries times, at least
\* max_retries * interval milliseconds.
C8_SleepsAfterEachBusyAttempt ==
    \A c \in Callers :
        retry_config # None =>
            /\ pc[c] = "sleep" => /\ sleeps[c] = Len(history[c]) - 1
                                  /\ history[c][Len(history[c])] = BusyError
            /\ pc[c] = "for" => sleeps[c] = Len(history[c])
            /\ slept[c] = sleeps[c] * retry_config[2].interval
            /\ i[c] = retry_config[2].max_retries =>
                   /\ sleeps[c] = retry_config[2].max_retries
                   /\ slept[c] >= retry_config[2].max_retries * retry_config[2].interval

C8_Witness ==
    \E c \in Callers :
        /\ retry_config # None
        /\ retry_config[2].max_retries >= 2
        /\ retry_config[2].interval > 0
        /\ pc[c] = "for"
        /\ i[c] = retry_config[2].max_retries
        /\ slept[c] = retry_config[2].max_retries * retry_config[2].interval

\* C9 as claimed: the construction interface can build the client at hand with
\* no retry policy.
C9_NoPolicyConstructible ==
    \E url \in Urls, username \in Usernames, password \in Passwords :
        /\ new(url, username, password).client = client
        /\ new(url, username, password).retry_config = None

\* C9 as amended: the retry policy is optional in the type of the field only;
\* every client built by new carries a retry policy, so a busy answer to a
\* looped attempt of such a client is followed by a sleep and another attempt.
C9_ConstructedClientHasPolicy ==
    /\ retry_config # None
    /\ \A url \in Urls, username \in Usernames, password \in Passwords :
           new(url, username, password).retry_config # None
    /\ \A c \in Callers :
           (pc[c] = "for" /\ Len(history[c]) = 0) => ENABLED Attempt(c)

C9_Witness ==
    \E c \in Callers :
        /\ pc[c] = "sleep"
        /\ history[c] = <<BusyError>>
        /\ retry_config # None

\* C10: the retry policy of a client built by new is 10 attempts with 500 ms
\* between them: at most 10 looped attempts and one final attempt, and a sleep
\* of 500 ms after each busy looped attempt.
C10_DefaultPolicy ==
    /\ retry_config = Some([max_retries |-> 10, interval |-> 500])
    /\ \A c \in Callers :
           /\ i[c] <= 10
           /\ Len(history[c]) <= 11
           /\ sleeps[c] <= 10
           /\ slept[c] = 500 * sleeps[c]
           /\ (pc[c] = "done" /\ AllBusy(c)) =>
                  /\ Len(history[c]) = 11
                  /\ slept[c] = 5000

C10_Witness ==
    \E c \in Callers :
        /\ pc[c] = "done"
        /\ Len(history[c]) = 11
        /\ sleeps[c] = 10
        /\ slept[c] = 5000
        /\ returned[c] = BusyError

\* C11: the client's configuration (url, Authorization header, retry policy)
\* is never changed after construction: no step of any API method or of send,
\* whatever it yields and however often it retries, modifies it.
C11_ConfigurationNeverChanges ==
    [][client' = client /\ retry_config' = retry_config]_vars

C11_Witness ==
    \E c \in Callers :
        /\ pc[c] = "done"
        /\ invocation[c].method = "send_raw_transaction"
        /\ sleeps[c] >= 2
        /\ IsSuccess(returned[c])
        /\ client = new("http://localhost:18443", "bitcoin", "secret").client

\* Everything a thread holds of its own call.
CallerState(c) ==
    <<pc[c], i[c], history[c], sleeps[c], slept[c], returned[c],
      invocation[c], request[c], wire[c]>>

\* C12: concurrent calls on the shared client are independent: under every
\* interleaving each caller's loop counter counts its own busy answers only,
\* each caller makes at most max_retries + 1 transport calls and receives the
\* result of its own last call, and a step of one caller changes nothing of
\* another caller's call.
C12_ConcurrentCallsIndependent ==
    /\ [](\A c \in Callers :
              /\ Len(history[c]) <=
                     (IF retry_config = None THEN 0 ELSE retry_config[2].max_retries) + 1
              /\ i[c] = sleeps[c]
              /\ i[c] = Cardinality({j \in 1..Len(history[c]) :
                                         history[c][j] = BusyError /\ j <= i[c]})
              /\ pc[c] = "for" => i[c] = Len(history[c])
              /\ pc[c] = "sleep" => i[c] = Len(history[c]) - 1
              /\ pc[c] = "done" => returned[c] = history[c][Len(history[c])])
    /\ [][\A c, d \in Callers :
              (c # d /\ CallerState(c)' # CallerState(c)) =>
                  CallerState(d)' = CallerState(d)]_vars

C12_Witness ==
    \E c, d \in Callers :
        /\ c # d
        /\ retry_config # None
        /\ retry_config[2].max_retries >= 2
        /\ pc[c] = "sleep"
        /\ i[c] = 1
        /\ pc[d] = "done"
        /\ Len(history[d]) = 1
        /\ IsSuccess(returned[d])

\* C13: construction fails fast: when the Authorization header value cannot
\* be built or the HTTP transport cannot be initialised, new panics and no
\* client exists, so no method is ever entered and no transport call is ever
\* issued on behalf of that construction; a construction whose steps both
\* succeeded yields the client.
C13_ConstructionFailsFast ==
    IF build.header[1] = "Err" \/ build.http[1] = "Err"
        THEN /\ client = NoClient
             /\ retry_config = NoRetryConfig
             /\ \A c \in Callers :
                    /\ pc[c] = "idle"
                    /\ history[c] = <<>>
                    /\ wire[c] = <<>>
                    /\ returned[c] = NoResult
        ELSE /\ client # NoClient
             /\ client.authorization = build.header[2]

C13_Witness ==
    /\ build.http = Err("TlsBackend")
    /\ client = NoClient
    /\ \A c \in Callers : pc[c] = "idle" /\ ~ENABLED Call(c)

\* C14: transport calls happen in send only: every API method builds one
\* request and goes straight into send with it, once, making no transport call
\* and no sleep of its own, and hands back what send returned; so the retry
\* policy bounds the calls of every method alike.
C14_MethodsDelegateToSend ==
    /\ [](\A c \in Callers :
              /\ pc[c] = "idle" =>
                     history[c] = <<>> /\ wire[c] = <<>> /\ sleeps[c] = 0
              /\ pc[c] # "idle" =>
                     /\ invocation[c].method \in Methods
                     /\ request[c].method # ""
                     /\ Len(wire[c]) = Len(history[c])
                     /\ Len(history[c]) <=
                            (IF retry_config = None
                                 THEN 0
                                 ELSE retry_config[2].max_retries) + 1
                     /\ sleeps[c] <= Len(history[c]))
    /\ [][\A c \in Callers :
              /\ (pc[c] = "idle" /\ pc'[c] # "idle") =>
                     /\ pc'[c] = "for"
                     /\ history'[c] = <<>>
                     /\ wire'[c] = <<>>
                     /\ sleeps'[c] = 0
                     /\ i'[c] = 0
              /\ (pc[c] # "idle" /\ pc'[c] # "idle") =>
                     /\ invocation'[c] = invocation[c]
                     /\ request'[c] = request[c]
              /\ pc[c] = "done" => pc'[c] \in {"done", "idle"}
              /\ (history'[c] # history[c] /\ pc'[c] # "idle") => pc[c] = "for"]_vars

C14_Witness ==
    \E c \in Callers :
        /\ invocation[c].method = "sign_raw_transaction_with_key"
        /\ request[c].method = "signrawtransactionwithkey"
        /\ retry_config # None
        /\ retry_config[2].max_retries >= 2
        /\ pc[c] = "done"
        /\ Len(history[c]) = retry_config[2].max_retries + 1
        /\ sleeps[c] = retry_config[2].max_retries

\* C15: a response that arrives with HTTP 200 and a body that does not decode
\* comes out of send as a transport failure (outer Err), never as an
\* application error of any code, and it ends the call at once: it is the last
\* transport call, no sleep follows it, and it is what send returns, also when
\* a retry policy is configured.
C15_MalformedBodyIsTransportFailure ==
    \A c \in Callers :
        \A j \in 1..Len(wire[c]) :
            (wire[c][j].response.http = "200"
                 /\ wire[c][j].response.body[1] = "malformed") =>
                /\ IsClientError(history[c][j])
                /\ ~IsRpcError(history[c][j])
                /\ history[c][j][1] # "Ok"
                /\ j = Len(history[c])
                /\ pc[c] = "done"
                /\ returned[c] = history[c][j]
                /\ sleeps[c] = j - 1

C15_Witness ==
    \E c \in Callers :
        /\ retry_config # None
        /\ retry_config[2].max_retries >= 2
        /\ Len(wire[c]) = 2
        /\ wire[c][1].response = [http |-> "200", body |-> <<"error", BusyCode>>]
        /\ wire[c][2].response = [http |-> "200", body |-> <<"malformed", "<html>">>]
        /\ pc[c] = "done"
        /\ returned[c] = Err("MalformedBody")

\* C16: at every point of a send the sleeps so far are at most the transport
\* calls so far, and at return they are the calls minus one: a call is made
\* only when every earlier call has been followed by its sleep, a sleep is
\* taken only right after a call and lasts the configured interval, none
\* follows the last call, and the time slept is at most max_retries intervals.
C16_SleepsOnlyBetweenCalls ==
    /\ [](\A c \in Callers :
              /\ sleeps[c] <= Len(history[c])
              /\ pc[c] = "done" => sleeps[c] = Len(history[c]) - 1
              /\ Len(history[c]) = 0 => sleeps[c] = 0 /\ slept[c] = 0
              /\ retry_config = None => sleeps[c] = 0 /\ slept[c] = 0
              /\ retry_config # None =>
                     /\ slept[c] = sleeps[c] * retry_config[2].interval
                     /\ slept[c] <= retry_config[2].max_retries
                                        * retry_config[2].interval)
    /\ [][\A c \in Callers :
              /\ Len(history'[c]) > Len(history[c]) =>
                     /\ Len(history'[c]) = Len(history[c]) + 1
                     /\ sleeps[c] = Len(history[c])
                     /\ sleeps'[c] = sleeps[c]
              /\ sleeps'[c] > sleeps[c] =>
                     /\ sleeps'[c] = sleeps[c] + 1
                     /\ sleeps[c] = Len(history[c]) - 1
                     /\ history'[c] = history[c]
                     /\ slept'[c] = slept[c] + retry_config[2].interval
                     /\ pc'[c] # "done"]_vars

C16_Witness ==
    \E c \in Callers :
        /\ retry_config # None
        /\ retry_config[2].max_retries >= 3
        /\ retry_config[2].interval > 0
        /\ pc[c] = "done"
        /\ Len(history[c]) = 3
        /\ sleeps[c] = 2
        /\ slept[c] = 2 * retry_config[2].interval
        /\ IsSuccess(returned[c])

\* C17: under a retry policy whose max_retries is 0 a send goes as it does
\* under no policy: the loop body never runs, the one transport call is the
\* final one, there is no sleep, and the answer of that call is returned, the
\* busy error included.
C17_ZeroRetriesLikeNoPolicy ==
    (retry_config # None /\ retry_config[2].max_retries = 0) =>
        \A c \in Callers :
            /\ ~ENABLED Attempt(c)
            /\ ~ENABLED Sleep(c)
            /\ pc[c] = "for" => ENABLED FinalAttempt(c)
            /\ pc[c] \in {"idle", "for", "done"}
            /\ i[c] = 0
            /\ Len(history[c]) <= 1
            /\ sleeps[c] = 0
            /\ slept[c] = 0
            /\ pc[c] = "for" => history[c] = <<>>
            /\ pc[c] = "done" =>
                   /\ Len(history[c]) = 1
                   /\ returned[c] = history[c][1]

C17_Witness ==
    \E c \in Callers :
        /\ retry_config = Some(RetryConfig(0, 250))
        /\ pc[c] = "done"
        /\ history[c] = <<BusyError>>
        /\ returned[c] = BusyError
        /\ sleeps[c] = 0

\* C18: every transport call of one send, each retry and the final call
\* included, carries the envelope the method built (version 1.0, id "42", the
\* method's name and parameters) and the Basic authorization header that new
\* built from the credentials; send does not alter the request between calls.
C18_SameEnvelopeEveryCall ==
    /\ [](\A c \in Callers :
              \A j \in 1..Len(wire[c]) :
                  /\ wire[c][j].request =
                         ApiRequest(invocation[c].method, invocation[c].args)
                  /\ wire[c][j].request.jsonrpc = "1.0"
                  /\ wire[c][j].request.id = "42"
                  /\ wire[c][j].request = wire[c][1].request
                  /\ wire[c][j].url = wire[c][1].url
                  /\ wire[c][j].authorization = wire[c][1].authorization
                  /\ wire[c][j].authorization = build.header[2]
                  /\ \E username \in Usernames, password \in Passwords :
                         wire[c][j].authorization =
                             <<"Basic", [alphabet |-> "base64",
                                         of |-> <<username, ":", password>>]>>)
    /\ [][\A c \in Callers :
              (pc[c] # "idle" /\ pc'[c] # "idle") =>
                  /\ request'[c] = request[c]
                  /\ \A j \in 1..Len(wire[c]) : wire'[c][j] = wire[c][j]]_vars

C18_Witness ==
    \E c \in Callers :
        /\ invocation[c].method = "send_to_address"
        /\ pc[c] = "done"
        /\ Len(wire[c]) = 3
        /\ wire[c][3].request = wire[c][1].request
        /\ wire[c][3].request.method = "sendtoaddress"
        /\ Len(wire[c][3].request.params) = 2
        /\ wire[c][1].response # wire[c][3].response

\* C19: list_unspent sends the method "listunspent" with three positional
\* parameters in the order min, max_confirmations, recipients; min is 0 for
\* Unconfirmed and n for AtLeast(n), and the other two are the arguments as
\* given.
C19_ListUnspentParameters ==
    \A c \in Callers :
        (pc[c] # "idle" /\ invocation[c].method = "list_unspent") =>
            LET given == invocation[c].args
                min == IF given[1] = <<"Unconfirmed">> THEN 0 ELSE given[1][2]
                expected == [jsonrpc |-> "1.0",
                             id |-> "42",
                             method |-> "listunspent",
                             params |-> <<min, given[2], given[3]>>]
            IN  /\ Len(given) = 3
                /\ given[1] \in {<<"Unconfirmed">>, <<"AtLeast", 0>>, <<"AtLeast", 6>>}
                /\ request[c] = expected
                /\ \A j \in 1..Len(wire[c]) : wire[c][j].request = expected

C19_Witness ==
    \E c \in Callers :
        /\ invocation[c].method = "list_unspent"
        /\ invocation[c].args = <<<<"AtLeast", 6>>, <<"Some", 9999>>, <<"None">>>>
        /\ pc[c] = "done"
        /\ Len(wire[c]) = 2
        /\ wire[c][2].request.params = <<6, <<"Some", 9999>>, <<"None">>>>

\* C20: get_raw_transaction_serialized and get_raw_transaction_verbose both
\* send "getrawtransaction" with the transaction id first and differ in the
\* second parameter only, false for the serialized and true for the verbose
\* form; get_block sends "getblock" with the hash alone, get_block_verbose
\* sends "getblock" with the hash and the verbosity 2.
C20_VerbosityParameters ==
    \A c \in Callers :
        pc[c] # "idle" =>
            LET given == invocation[c].args
                sent(method, params) ==
                    LET expected == [jsonrpc |-> "1.0", id |-> "42",
                                     method |-> method, params |-> params]
                    IN  /\ request[c] = expected
                        /\ \A j \in 1..Len(wire[c]) : wire[c][j].request = expected
            IN  /\ invocation[c].method = "get_raw_transaction_serialized" =>
                       Len(given) = 1 /\ sent("getrawtransaction", <<given[1], FALSE>>)
                /\ invocation[c].method = "get_raw_transaction_verbose" =>
                       Len(given) = 1 /\ sent("getrawtransaction", <<given[1], TRUE>>)
                /\ invocation[c].method = "get_block" =>
                       Len(given) = 1 /\ sent("getblock", <<given[1]>>)
                /\ invocation[c].method = "get_block_verbose" =>
                       Len(given) = 1 /\ sent("getblock", <<given[1], 2>>)

C20_Witness ==
    \E c \in Callers :
        /\ invocation[c] = [method |-> "get_block_verbose", args |-> <<"hash2">>]
        /\ pc[c] = "done"
        /\ Len(wire[c]) = 2
        /\ wire[c][2].request.method = "getblock"
        /\ wire[c][2].request.params = <<"hash2", 2>>

====
